---- MODULE Spec2Model ----
(***************************************************************************)
(* A model of the VRChat adult-status relay: the cooldown gate             *)
(* (src/src/cooldownManager.ts), the session singleton                     *)
(* (src/src/vrchatClient.ts), the error translator (src/unnamed/part_002)  *)
(* and the Express application with its validation middleware, its two     *)
(* routes and startServer (src/unnamed/part_003).                          *)
(*                                                                         *)
(* One action is one run-to-completion step of the Node event loop: the    *)
(* synchronous code from an event (a request arriving, a timer firing, an  *)
(* upstream promise settling) up to the next await that really suspends.   *)
(***************************************************************************)
EXTENDS Integers, Sequences, FiniteSets, TLC

\* ------------------------------------------------------------------ bounds

\* Number of request slots (requests that can be in flight at once).
NumReqs == 2

\* The clock advances at most this many times.
MaxTicks == 3

\* Clock steps per cooldown period: the clock moves in steps of
\* cooldownMs / TicksPerCooldown milliseconds.
TicksPerCooldown == 2

\* Calls of initialize(): startServer's and those of other callers.
NumInits == 2

\* Longest list of candidates the upstream search returns.
MaxCandidates == 3

\* --------------------------------------------------------------- JS values

\* A JavaScript value of a header or a query parameter: undefined, a string,
\* or an array (a repeated query parameter, typeof "object").
Undefined == [t |-> "undefined", v |-> ""]

Str(s) == [t |-> "string", v |-> s]

Arr(s) == [t |-> "object", v |-> s]

\* JavaScript truthiness: undefined and the empty string are falsy, every
\* array is truthy.
Truthy(x) == ~(x.t = "undefined" \/ (x.t = "string" /\ x.v = ""))

\* a || b
OrElse(a, b) == IF Truthy(a) THEN a ELSE b

\* Array.prototype.includes on a list of strings: strict equality, so only
\* a string can be a member.
Includes(list, x) == x.t = "string" /\ x.v \in list

\* An optional value: the empty set (null / undefined) or a singleton.
None == {}

Some(x) == {x}

\* The value of a non-empty optional.
The(o) == CHOOSE x \in o : TRUE

\* ------------------------------------------------------------ cooldownManager

cooldownMs == 3000

\* One step of the model's clock, in milliseconds.
Tick == cooldownMs \div TicksPerCooldown

\* Date.now() when the process starts: the epoch clock is far beyond one
\* cooldown period, so the first caller never waits on lastRequestTime = 0.
StartTime == cooldownMs

MaxTime == StartTime + MaxTicks * Tick

\* A gate that records the time it read on entry, before the sleep.
RecordedTimeOnEntry(start, at) == start

\* this.lastRequestTime = Date.now() at the return of a call of
\* waitForCooldown that started at start and returns at time at.
RecordedTime(start, at) == at

\* timeSinceLastRequest < cooldownMs (cooldownManager.ts line 17)
MustWait(t, last) == t - last < cooldownMs

\* A gate that always waits the whole period.
WaitTimeWholePeriod(t, last) == cooldownMs

\* waitTime (cooldownManager.ts line 18)
WaitTime(t, last) == cooldownMs - (t - last)

\* -------------------------------------------------------------- admission

ALLOWED_USER_AGENTS ==
  { "UnityPlayer/2022.3.22f1-DWR (UnityWebRequest/1.0, libcurl/8.5.0-DEV)",
    "UnityPlayer/2022.3.22f1 (UnityWebRequest/1.0, libcurl/8.5.0-DEV)" }

ALLOWED_UNITY_VERSIONS == {"2022.3.22f1-DWR", "2022.3.22f1"}

ALLOWED_CALLED_FROM == {"loveworld", "maxieworld"}

Reply(status, body) == [status |-> status, body |-> body]

\* The slot has sent no response yet.
NoResponse == Reply(0, <<>>)

\* x is a response that was sent.
IsResponse(x) == x.status # 0

NotFoundBody == [error |-> "Not found"]

\* A tag that is the header when there is one, the query parameter otherwise.
CalledFromHeaderFirst(q) == OrElse(q.headerCalledFrom, q.queryCalledfrom)

\* const calledFrom = req.query.calledfrom || req.get("x-called-from")
CalledFrom(q) == OrElse(q.queryCalledfrom, q.headerCalledFrom)

UserAgentRejected(q) ==
  ~Truthy(q.userAgent) \/ ~Includes(ALLOWED_USER_AGENTS, q.userAgent)

\* A version check that lets a request without the header through.
UnityVersionRejectedIfPresent(q) ==
  Truthy(q.unityVersion) /\ ~Includes(ALLOWED_UNITY_VERSIONS, q.unityVersion)

UnityVersionRejected(q) ==
  ~Truthy(q.unityVersion) \/ ~Includes(ALLOWED_UNITY_VERSIONS, q.unityVersion)

CalledFromRejected(q) ==
  \/ ~Truthy(CalledFrom(q))
  \/ CalledFrom(q).t # "string"
  \/ ~Includes(ALLOWED_CALLED_FROM, CalledFrom(q))

\* A middleware that filters /health like every other path.
ValidationMiddlewareOnEveryPath(q) ==
  IF UserAgentRejected(q) THEN Reply(404, NotFoundBody)
  ELSE IF UnityVersionRejected(q) THEN Reply(404, NotFoundBody)
  ELSE IF CalledFromRejected(q) THEN Reply(404, NotFoundBody)
  ELSE NoResponse

\* The validation middleware: the response it sends, or NoResponse when it
\* calls next().
ValidationMiddleware(q) ==
  IF q.path = "/health" THEN NoResponse
  ELSE IF UserAgentRejected(q) THEN Reply(404, NotFoundBody)
  ELSE IF UnityVersionRejected(q) THEN Reply(404, NotFoundBody)
  ELSE IF CalledFromRejected(q) THEN Reply(404, NotFoundBody)
  ELSE NoResponse

\* -------------------------------------------------------- error translator

\* An error value as handleVRChatError sees it: its class, the own keys the
\* translator tests with "in", the values under them and its message.
\* cls "Object" is a thrown plain object, cls "Primitive" a thrown string,
\* null or undefined.
ErrorValue(cls, keys, statusCode, responseStatus, message) ==
  [cls |-> cls, keys |-> keys, statusCode |-> statusCode,
   responseStatus |-> responseStatus, message |-> message]

\* new Error(message)
PlainError(message) == ErrorValue("Error", {}, None, None, message)

\* new RequestError(statusCode, message) of vrc-ts
RequestError(statusCode, message) ==
  ErrorValue("RequestError", {"statusCode"}, Some(statusCode), None, message)

\* error instanceof Error
IsError(e) == e.cls \notin {"Object", "Primitive"}

\* String.prototype.includes, tabulated for the messages the model's errors
\* carry.
MessageIncludes(message, part) ==
  <<message, part>> \in { <<"network error", "network">>,
                          <<"connect ECONNREFUSED", "ECONNREFUSED">>,
                          <<"timeout exceeded", "timeout">> }

\* A test for an object that lets every value through.
IsObjectUnchecked(e) == TRUE

\* typeof error === "object" && error !== null
IsObject(e) == e.cls # "Primitive"

\* "statusCode" in error throws a TypeError when error is no object.
InThrows(e) == e.cls = "Primitive"

isAxiosLikeError(e) ==
  /\ IsObject(e)
  /\ ("statusCode" \in e.keys \/ "response.status" \in e.keys)

\* The translator throws instead of returning: the "in" test is reached with
\* a value that is no object.
TranslatorThrows(e) == IsObject(e) /\ InThrows(e)

\* error.statusCode ?? error.response?.status
getStatusCode(e) ==
  IF e.cls = "RequestError" THEN e.statusCode
  ELSE IF isAxiosLikeError(e)
       THEN (IF e.statusCode # None THEN e.statusCode ELSE e.responseStatus)
       ELSE None

Translated(statusCode, response) ==
  [statusCode |-> statusCode, response |-> response]

\* A mapping that knows the four named codes only.
RequestErrorStatusNamedOnly(statusCode) ==
  IF statusCode \in {401, 403, 404, 429} THEN statusCode
  ELSE IF statusCode >= 500 THEN 502
  ELSE 500

\* The status a RequestError's upstream status code is mapped to.
RequestErrorStatus(statusCode) ==
  IF statusCode = 401 THEN 401
  ELSE IF statusCode = 403 THEN 403
  ELSE IF statusCode = 404 THEN 404
  ELSE IF statusCode = 429 THEN 429
  ELSE IF statusCode >= 400 /\ statusCode < 500 THEN statusCode
  ELSE IF statusCode >= 500 THEN 502
  ELSE 500

\* The status an axios-like error's status code is mapped to.
HttpErrorStatus(statusCode) ==
  IF statusCode >= 400 /\ statusCode < 600 THEN statusCode ELSE 500

handleVRChatError(e) ==
  IF e.cls = "RequestError" THEN
    Translated(RequestErrorStatus(The(e.statusCode)),
               [error |-> e.message, statusCode |-> The(e.statusCode),
                errorType |-> "RequestError"])
  ELSE IF e.cls = "UserNotAuthenticated" THEN
    Translated(401, [error |-> "VRChat client is not authenticated",
                     statusCode |-> 401, errorType |-> "UserNotAuthenticated"])
  ELSE IF e.cls = "BadRequestParameter" THEN
    Translated(400, [error |-> IF e.message # "" THEN e.message
                               ELSE "Invalid request parameter",
                     errorType |-> "BadRequestParameter"])
  ELSE IF e.cls = "InvalidUserAgent" THEN
    Translated(500, [error |-> "Invalid user agent configuration",
                     errorType |-> "InvalidUserAgent"])
  ELSE IF e.cls \in {"TOTPRequired", "EmailOtpRequired"} THEN
    Translated(500, [error |-> "2FA authentication required - check configuration",
                     errorType |-> e.cls])
  ELSE IF e.cls \in {"CookiesExpired", "CookiesNotFound"} THEN
    Translated(500, [error |-> "Cookie authentication issue - may need to re-authenticate",
                     errorType |-> e.cls])
  ELSE IF /\ isAxiosLikeError(e)
          /\ getStatusCode(e) # None
          /\ The(getStatusCode(e)) # 0 THEN
    Translated(HttpErrorStatus(The(getStatusCode(e))),
               [error |-> IF IsError(e) THEN e.message ELSE "HTTP request failed",
                statusCode |-> The(getStatusCode(e)), errorType |-> "HttpError"])
  ELSE IF IsError(e) THEN
    IF \/ MessageIncludes(e.message, "network")
       \/ MessageIncludes(e.message, "ECONNREFUSED")
       \/ MessageIncludes(e.message, "timeout")
    THEN Translated(503, [error |-> "VRChat API is unavailable",
                          errorType |-> "NetworkError"])
    ELSE Translated(500, [error |-> e.message, errorType |-> "Error"])
  ELSE Translated(500, [error |-> "An unknown error occurred",
                        errorType |-> "UnknownError"])

\* The handler's catch block: res.status(statusCode).json(response). Were the
\* translator to throw, the handler's promise would reject and the request
\* stay unanswered.
CatchResponse(e) ==
  IF TranslatorThrows(e) THEN NoResponse
  ELSE Reply(handleVRChatError(e).statusCode, handleVRChatError(e).response)

\* ------------------------------------------------------------- user resolver

\* A search hit: identifier and display name.
Candidate(id, displayName) == [id |-> id, displayName |-> displayName]

\* String.prototype.toLowerCase, tabulated for Names.
Lower(name) ==
  CASE name = "Alice" -> "alice"
    [] name = "Alice2" -> "alice2"
    [] OTHER -> name

\* A comparison of display names that ignores case.
NameMatchesIgnoringCase(candidateName, displayName) ==
  Lower(candidateName) = Lower(displayName)

\* searchResult.displayName === displayName (case-sensitive)
NameMatches(candidateName, displayName) == candidateName = displayName

\* The for-loop of the handler from index i on: the index of the first
\* candidate whose display name matches, 0 when the loop runs out.
RECURSIVE ScanFrom(_, _, _)
ScanFrom(results, displayName, i) ==
  IF i > Len(results) THEN 0
  ELSE IF NameMatches(results[i].displayName, displayName) THEN i
  ELSE ScanFrom(results, displayName, i + 1)

\* A resolver that takes the first search hit, whatever its name.
MatchIndexFirstHit(results, displayName) == IF Len(results) > 0 THEN 1 ELSE 0

\* The candidate whose profile the loop fetches (0: none).
MatchIndex(results, displayName) == ScanFrom(results, displayName, 1)

\* AgeVerificationStatus.Verified_18_Plus
Verified_18_Plus == "18+"

\* A classification that takes every status but "hidden" for verified.
IsAgeVerifiedUnlessHidden(profile) ==
  ~(profile.ageVerificationStatus.t = "string" /\ profile.ageVerificationStatus.v = "hidden")

\* matchedUser.ageVerificationStatus === AgeVerificationStatus.Verified_18_Plus
IsAgeVerified(profile) ==
  /\ profile.ageVerificationStatus.t = "string"
  /\ profile.ageVerificationStatus.v = Verified_18_Plus

\* The username the success response reports.
ReportedName(profile, displayName) == profile.displayName

\* The 200 response built from the fetched profile.
SuccessResponse(profile, displayName) ==
  Reply(200, ("age-verified" :> (IF IsAgeVerified(profile) THEN "true" ELSE "false"))
             @@ ("username" :> ReportedName(profile, displayName)))

BadUsernameResponse ==
  Reply(400, [error |-> "Username query parameter is required and must be a string"])

\* An empty search answered as a success.
NoCandidatesAnsweredOk == Reply(200, [error |-> "User not found"])

NoCandidatesResponse == Reply(404, [error |-> "User not found"])

NoExactMatchResponse ==
  Reply(404, [error |-> "User not found with exact displayName match"])

\* A username check that leaves out the typeof test.
BadUsernameUntyped(q) == ~Truthy(q.username)

\* !displayName || typeof displayName !== "string"
BadUsername(q) == ~Truthy(q.username) \/ q.username.t # "string"

\* --------------------------------------------------------------------- state

VARIABLES
  now,                 \* Date.now(), in milliseconds
  lastRequestTime,     \* CooldownManager.lastRequestTime
  admissions,          \* the last two returns of waitForCooldown, in order
  outbound,            \* the last two upstream calls issued, in order
  api,                 \* VRChatClient.api (None: null)
  isAuthenticated,     \* VRChatClient.isAuthenticated
  currentUser,         \* VRChatClient.currentUser (None: null)
  initializationError, \* VRChatClient.initializationError (None: null)
  initPc,              \* per call of initialize(): "idle", "login", "returned", "threw"
  apiCurrentUser,      \* per VRChatAPI in use: its currentUser (None: null)
  server,              \* startServer: "starting", "login", "listening", "exited"
  pc,                  \* per request slot: where its handler is suspended
  req,                 \* per slot: the request it handles
  cooldown,            \* per slot: its pending call of waitForCooldown (None: none)
  gateCalls,           \* per slot: how often its handler called waitForCooldown
  searchResults,       \* per slot: what searchAllUsers returned (None: not yet)
  matchedUser,         \* per slot: what getUserById returned (None: not yet)
  res,                 \* per slot: the response sent (NoResponse: none yet)
  caught,              \* per slot: what its catch block received (None: nothing)
  calls                \* per slot: the upstream calls its handler issued

session == <<api, isAuthenticated, currentUser, initializationError>>

\* The calls of initialize() and the client handles they constructed.
callers == <<initPc, apiCurrentUser>>

gate == <<lastRequestTime, admissions>>

slots == <<pc, req, cooldown, gateCalls, searchResults, matchedUser, res, caught, calls>>

vars == <<now, gate, outbound, session, callers, server, slots>>

AllSlots == 1 .. NumReqs

\* The calls of initialize(): call 1 is startServer's, the others are made by
\* other users of the exported singleton. The VRChatAPI a call constructs is
\* named after the call.
Callers == 1 .. NumInits

OtherCallers == Callers \ {1}

\* An idle slot's request.
NoRequest ==
  [path |-> "", userAgent |-> Undefined, unityVersion |-> Undefined,
   queryCalledfrom |-> Undefined, headerCalledFrom |-> Undefined,
   username |-> Undefined]

Init ==
  /\ now = StartTime
  /\ lastRequestTime = 0
  /\ admissions = <<>>
  /\ outbound = <<>>
  /\ api = None
  /\ isAuthenticated = FALSE
  /\ currentUser = None
  /\ initializationError = None
  /\ initPc = [c \in Callers |-> "idle"]
  /\ apiCurrentUser = [c \in Callers |-> None]
  /\ server = "starting"
  /\ pc = [r \in AllSlots |-> "idle"]
  /\ req = [r \in AllSlots |-> NoRequest]
  /\ cooldown = [r \in AllSlots |-> None]
  /\ gateCalls = [r \in AllSlots |-> 0]
  /\ searchResults = [r \in AllSlots |-> None]
  /\ matchedUser = [r \in AllSlots |-> None]
  /\ res = [r \in AllSlots |-> NoResponse]
  /\ caught = [r \in AllSlots |-> None]
  /\ calls = [r \in AllSlots |-> <<>>]

\* ------------------------------------------------------------ session manager

isReady == isAuthenticated /\ api # None /\ currentUser # None

\* getApi() throws
GetApiThrows == api = None \/ ~isAuthenticated

NotInitializedError == PlainError("VRChat client is not initialized or authenticated")

MissingCredentialsError ==
  PlainError("VRCHAT_USERNAME and VRCHAT_PASSWORD are required in .env file")

AuthenticationFailedError == PlainError("Authentication failed: currentUser is null")

\* error instanceof Error ? error : new Error(String(error))
AsError(e) == IF IsError(e) THEN e ELSE PlainError(e.message)

\* A test that never takes initialize() for done.
NeverInitialized == FALSE

\* this.isAuthenticated && this.api !== null: initialize() returns at once
AlreadyInitialized == isAuthenticated /\ api # None

\* A catch block that records the error and leaves the flag as it is.
InitializeThrowsKeepingFlag(c, e) ==
  /\ initializationError' = Some(AsError(e))
  /\ isAuthenticated' = isAuthenticated
  /\ initPc' = [initPc EXCEPT ![c] = "threw"]

\* The catch block of initialize(): record the error, clear the flag, rethrow.
InitializeThrows(c, e) ==
  /\ initializationError' = Some(AsError(e))
  /\ isAuthenticated' = FALSE
  /\ initPc' = [initPc EXCEPT ![c] = "threw"]

\* The VRChatAPI that call c constructed is the one the session holds. Of a
\* handle the session has replaced only login() is still to return; nothing
\* reads its fields any more, and the model keeps them at None. The new
\* handle of a call has no current user, and neither has one whose login()
\* is pending.
InUse(c) == api = Some(c)

\* Call c of initialize() runs up to "await this.api.login()".
InitializeCall(c, credentials) ==
  /\ initPc[c] = "idle"
  /\ IF AlreadyInitialized
     THEN /\ initPc' = [initPc EXCEPT ![c] = "returned"]
          /\ UNCHANGED <<session, apiCurrentUser>>
     ELSE IF ~credentials
     THEN /\ InitializeThrows(c, MissingCredentialsError)
          /\ UNCHANGED <<api, currentUser, apiCurrentUser>>
     ELSE /\ api' = Some(c)
          /\ apiCurrentUser' = [h \in Callers |-> None]
          /\ initPc' = [initPc EXCEPT ![c] = "login"]
          /\ UNCHANGED <<isAuthenticated, currentUser, initializationError>>

\* A startServer that goes on to app.listen when initialize() has thrown.
ServerAfterListeningAnyway(c, position) ==
  IF c # 1 THEN server
  ELSE IF position \in {"returned", "threw"} THEN "listening"
  ELSE "login"

\* startServer after call c of initialize() took a step: when its own call
\* returns it calls app.listen, when it throws the catch ends the process.
ServerAfter(c, position) ==
  IF c # 1 THEN server
  ELSE IF position = "returned" THEN "listening"
  ELSE IF position = "threw" THEN "exited"
  ELSE "login"

\* startServer calls initialize().
StartServer(credentials) ==
  /\ server = "starting"
  /\ InitializeCall(1, credentials)
  /\ server' = ServerAfter(1, initPc'[1])
  /\ UNCHANGED <<now, gate, outbound, slots>>

\* Another user of the singleton calls initialize().
Initialize(c, credentials) ==
  /\ c # 1
  /\ server # "exited"
  /\ InitializeCall(c, credentials)
  /\ UNCHANGED <<now, gate, outbound, server, slots>>

\* The login() of call c resolves, leaving user in the currentUser of the
\* VRChatAPI it was called on; initialize() goes on with this.api, the
\* handle the session holds by now.
LoginReturns(c, user) ==
  /\ initPc[c] = "login"
  /\ server # "exited"
  /\ apiCurrentUser' = [apiCurrentUser EXCEPT ![c] = IF InUse(c) THEN user ELSE None]
  /\ IF apiCurrentUser'[The(api)] = None
     THEN /\ InitializeThrows(c, AuthenticationFailedError)
          /\ UNCHANGED <<api, currentUser>>
     ELSE /\ currentUser' = apiCurrentUser'[The(api)]
          /\ isAuthenticated' = TRUE
          /\ initializationError' = None
          /\ initPc' = [initPc EXCEPT ![c] = "returned"]
          /\ UNCHANGED api
  /\ server' = ServerAfter(c, initPc'[c])
  /\ UNCHANGED <<now, gate, outbound, slots>>

\* The login() of call c rejects with e.
LoginFails(c, e) ==
  /\ initPc[c] = "login"
  /\ server # "exited"
  /\ InitializeThrows(c, e)
  /\ server' = ServerAfter(c, initPc'[c])
  /\ UNCHANGED <<api, currentUser, apiCurrentUser>>
  /\ UNCHANGED <<now, gate, outbound, slots>>

\* The caller of call c has dealt with its outcome and may call again.
InitializeSettled(c) ==
  /\ c # 1
  /\ initPc[c] \in {"returned", "threw"}
  /\ initPc' = [initPc EXCEPT ![c] = "idle"]
  /\ UNCHANGED <<now, gate, outbound, session, apiCurrentUser, server, slots>>

\* ----------------------------------------------------------------- the clock

\* Time passes while the server is listening. A timer never fires early, and
\* may fire late: the clock may pass a deadline before the callback runs.
TickClock ==
  /\ server = "listening"
  /\ now < MaxTime
  /\ now' = now + Tick
  /\ UNCHANGED <<gate, outbound, session, callers, server, slots>>

\* The timer of slot r's call of waitForCooldown is not due yet.
TimerPending(r) ==
  /\ pc[r] = "cooldown"
  /\ now < The(cooldown[r]).start + The(cooldown[r]).waitTime

\* Time passes while a call of waitForCooldown sleeps: the clock goes on for
\* as long as a timer is pending, however late the request arrived.
TimerTick ==
  /\ server = "listening"
  /\ \E r \in AllSlots : TimerPending(r)
  /\ now' = now + Tick
  /\ UNCHANGED <<gate, outbound, session, callers, server, slots>>

\* ------------------------------------------------------------ request handler

\* JSON null
Null == [t |-> "null", v |-> ""]

\* A health check that answers 200 also while the session is not ready.
HealthResponseAlwaysOk ==
  IF ~isReady
  THEN Reply(200, [status |-> "unhealthy", timestamp |-> now,
                   error |-> "VRChat client not initialized",
                   vrchatClientReady |-> FALSE])
  ELSE Reply(200, [status |-> "healthy", timestamp |-> now,
                   vrchatClientReady |-> TRUE,
                   authenticatedUser |-> Null])

\* GET /health
HealthResponse ==
  IF ~isReady
  THEN Reply(503, [status |-> "unhealthy", timestamp |-> now,
                   error |-> IF initializationError # None
                             THEN The(initializationError).message
                             ELSE "VRChat client not initialized",
                   vrchatClientReady |-> FALSE])
  ELSE Reply(200, [status |-> "healthy", timestamp |-> now,
                   vrchatClientReady |-> TRUE,
                   authenticatedUser |-> IF currentUser # None
                                         THEN Str(The(currentUser).displayName)
                                         ELSE Null])

\* No route matches: Express's final handler answers 404 with its own page.
NoRouteResponse == Reply(404, [html |-> "Cannot GET"])

\* A pipeline that answers a well-formed /checkAdultStatus request from a
\* cache, without going to the gate.
ResponseBeforeGateCached(q) ==
  IF IsResponse(ValidationMiddleware(q)) THEN ValidationMiddleware(q)
  ELSE IF q.path = "/health" THEN HealthResponse
  ELSE IF q.path # "/checkAdultStatus" THEN NoRouteResponse
  ELSE IF BadUsername(q) THEN BadUsernameResponse
  ELSE Reply(200, ("age-verified" :> "true") @@ ("username" :> q.username.v))

\* The response the synchronous part of the pipeline sends before the
\* cooldown gate is reached: the middleware's rejection, the /health reply,
\* the 400 for a bad username, Express's 404 for an unknown route.
\* NoResponse: the request goes on to waitForCooldown.
ResponseBeforeGate(q) ==
  IF IsResponse(ValidationMiddleware(q)) THEN ValidationMiddleware(q)
  ELSE IF q.path = "/health" THEN HealthResponse
  ELSE IF q.path # "/checkAdultStatus" THEN NoRouteResponse
  ELSE IF BadUsername(q) THEN BadUsernameResponse
  ELSE NoResponse

\* An upstream call as issued: the operation and its argument.
SearchCall(displayName) ==
  [op |-> "searchAllUsers", search |-> displayName, userId |-> 0]

GetUserCall(userId) == [op |-> "getUserById", search |-> "", userId |-> userId]

\* A log after entry x is added: the logs keep their last two entries.
Logged(log, x) == IF Len(log) = 0 THEN <<x>> ELSE <<log[Len(log)], x>>

\* The entry of the admission log for a call of waitForCooldown that started
\* at start, asked the timer for waitTime and returned at time at.
Admission(start, waitTime, at) == [start |-> start, waitTime |-> waitTime, at |-> at]

\* Slot r's handler issues an upstream call.
Issue(r, call) ==
  /\ calls' = [calls EXCEPT ![r] = Append(@, call)]
  /\ outbound' = Logged(outbound, [op |-> call.op, at |-> now])

Respond(r, response) ==
  /\ res' = [res EXCEPT ![r] = response]
  /\ pc' = [pc EXCEPT ![r] = "done"]

\* A catch block that logs the error and throws it on: the request is never
\* answered.
CatchRethrowing(r, e) ==
  /\ caught' = [caught EXCEPT ![r] = Some(e)]
  /\ Respond(r, NoResponse)

\* The catch block of the handler receives e.
Catch(r, e) ==
  /\ caught' = [caught EXCEPT ![r] = Some(e)]
  /\ Respond(r, CatchResponse(e))

\* The handler from the return of waitForCooldown to its next await: getApi()
\* (a throw goes to the catch block), then the search is issued.
AfterCooldown(r, displayName) ==
  IF GetApiThrows
  THEN /\ Catch(r, NotInitializedError)
       /\ UNCHANGED <<calls, outbound>>
  ELSE /\ Issue(r, SearchCall(displayName))
       /\ pc' = [pc EXCEPT ![r] = "search"]
       /\ UNCHANGED <<res, caught>>

\* A request arrives: the middleware chain and the route handler run up to
\* the first await that suspends.
Receive(r, q) ==
  /\ server = "listening"
  /\ pc[r] = "idle"
  /\ req' = [req EXCEPT ![r] = q]
  /\ IF IsResponse(ResponseBeforeGate(q))
     THEN /\ Respond(r, ResponseBeforeGate(q))
          /\ UNCHANGED <<gate, outbound, cooldown, gateCalls, caught, calls>>
     ELSE IF MustWait(now, lastRequestTime)
     THEN /\ cooldown' = [cooldown EXCEPT ![r] =
                Some([start |-> now, waitTime |-> WaitTime(now, lastRequestTime)])]
          /\ gateCalls' = [gateCalls EXCEPT ![r] = @ + 1]
          /\ pc' = [pc EXCEPT ![r] = "cooldown"]
          /\ UNCHANGED <<gate, outbound, res, caught, calls>>
     ELSE /\ gateCalls' = [gateCalls EXCEPT ![r] = @ + 1]
          /\ lastRequestTime' = RecordedTime(now, now)
          /\ admissions' = Logged(admissions, Admission(now, 0, now))
          /\ AfterCooldown(r, q.username.v)
          /\ UNCHANGED cooldown
  /\ UNCHANGED <<now, session, callers, server, searchResults, matchedUser>>

\* The timer of waitForCooldown fires: the gate records Date.now() and
\* returns, and the handler goes on to the search.
CooldownElapsed(r) ==
  /\ pc[r] = "cooldown"
  /\ now >= The(cooldown[r]).start + The(cooldown[r]).waitTime
  /\ lastRequestTime' = RecordedTime(The(cooldown[r]).start, now)
  /\ admissions' = Logged(admissions,
       Admission(The(cooldown[r]).start, The(cooldown[r]).waitTime, now))
  /\ cooldown' = [cooldown EXCEPT ![r] = None]
  /\ AfterCooldown(r, req[r].username.v)
  /\ UNCHANGED <<now, session, callers, server, req, gateCalls, searchResults, matchedUser>>

\* searchAllUsers resolves with results.
SearchReturns(r, results) ==
  /\ pc[r] = "search"
  /\ searchResults' = [searchResults EXCEPT ![r] = Some(results)]
  /\ IF Len(results) = 0
     THEN /\ Respond(r, NoCandidatesResponse)
          /\ UNCHANGED <<calls, outbound>>
     ELSE IF MatchIndex(results, req[r].username.v) = 0
     THEN /\ Respond(r, NoExactMatchResponse)
          /\ UNCHANGED <<calls, outbound>>
     ELSE /\ Issue(r, GetUserCall(results[MatchIndex(results, req[r].username.v)].id))
          /\ pc' = [pc EXCEPT ![r] = "fetch"]
          /\ UNCHANGED res
  /\ UNCHANGED <<now, gate, session, callers, server, req, cooldown, gateCalls,
                 matchedUser, caught>>

\* A handler that takes a failed search for a lost login and clears the
\* session's flag.
SearchFailsResettingSession(r, e) ==
  /\ pc[r] = "search"
  /\ Catch(r, e)
  /\ isAuthenticated' = FALSE
  /\ UNCHANGED <<now, gate, outbound, api, currentUser, initializationError, callers,
                 server, req, cooldown, gateCalls, searchResults, matchedUser, calls>>

\* A handler that searches again when the search fails.
SearchFailsRetrying(r, e) ==
  /\ pc[r] = "search"
  /\ Len(calls[r]) < 2
  /\ Issue(r, SearchCall(req[r].username.v))
  /\ UNCHANGED <<now, gate, session, callers, server, pc, req, cooldown, gateCalls,
                 searchResults, matchedUser, res, caught>>

\* searchAllUsers rejects with e.
SearchFails(r, e) ==
  /\ pc[r] = "search"
  /\ Catch(r, e)
  /\ UNCHANGED <<now, gate, outbound, session, callers, server, req, cooldown,
                 gateCalls, searchResults, matchedUser, calls>>

\* getUserById resolves with profile, the profile of the user asked for.
GetUserReturns(r, profile) ==
  /\ pc[r] = "fetch"
  /\ profile.id = calls[r][Len(calls[r])].userId
  /\ matchedUser' = [matchedUser EXCEPT ![r] = Some(profile)]
  /\ Respond(r, SuccessResponse(profile, req[r].username.v))
  /\ UNCHANGED <<now, gate, outbound, session, callers, server, req, cooldown,
                 gateCalls, searchResults, caught, calls>>

\* A handler that reports a failed fetch as a user that was not found.
GetUserFailsAsNotFound(r, e) ==
  /\ pc[r] = "fetch"
  /\ caught' = [caught EXCEPT ![r] = Some(e)]
  /\ Respond(r, NoExactMatchResponse)
  /\ UNCHANGED <<now, gate, outbound, session, callers, server, req, cooldown,
                 gateCalls, searchResults, matchedUser, calls>>

\* getUserById rejects with e.
GetUserFails(r, e) ==
  /\ pc[r] = "fetch"
  /\ Catch(r, e)
  /\ UNCHANGED <<now, gate, outbound, session, callers, server, req, cooldown,
                 gateCalls, searchResults, matchedUser, calls>>

\* The exchange is over: the slot is free for the next request.
Close(r) ==
  /\ pc[r] = "done"
  /\ pc' = [pc EXCEPT ![r] = "idle"]
  /\ req' = [req EXCEPT ![r] = NoRequest]
  /\ gateCalls' = [gateCalls EXCEPT ![r] = 0]
  /\ searchResults' = [searchResults EXCEPT ![r] = None]
  /\ matchedUser' = [matchedUser EXCEPT ![r] = None]
  /\ res' = [res EXCEPT ![r] = NoResponse]
  /\ caught' = [caught EXCEPT ![r] = None]
  /\ calls' = [calls EXCEPT ![r] = <<>>]
  /\ UNCHANGED <<now, gate, outbound, session, callers, server, cooldown>>

\* ------------------------------------------------------------------ inputs

\* What login() may leave in api.currentUser.
LoginUsers == {None, Some([displayName |-> "RelayBot"])}

\* What login() may reject with.
LoginErrors ==
  { RequestError(401, "Invalid Username/Email or Password"),
    ErrorValue("TOTPRequired", {}, None, None, "TOTP required") }

Paths == {"/health", "/checkAdultStatus", "/other"}

UserAgents ==
  {Undefined, Str("curl/8.5.0")} \cup {Str(u) : u \in ALLOWED_USER_AGENTS}

UnityVersions ==
  {Undefined, Str("2021.3.1f1")} \cup {Str(u) : u \in ALLOWED_UNITY_VERSIONS}

QueryCalledfroms ==
  {Undefined, Str(""), Str("otherworld"), Arr("loveworld")}
    \cup {Str(u) : u \in ALLOWED_CALLED_FROM}

HeaderCalledFroms == {Undefined, Str("loveworld"), Str("otherworld")}

\* Display names: an exact name, one that differs by case, a fuzzy match.
Names == {"Alice", "alice", "Alice2"}

\* Every request over the header and query values above.
AdmissionRequests ==
  [path : Paths, userAgent : UserAgents, unityVersion : UnityVersions,
   queryCalledfrom : QueryCalledfroms, headerCalledFrom : HeaderCalledFroms,
   username : {Undefined, Arr("Alice"), Str("Alice")}]

\* A /checkAdultStatus request that passes the validation middleware.
ValidRequest(username) ==
  [path |-> "/checkAdultStatus",
   userAgent |-> Str("UnityPlayer/2022.3.22f1-DWR (UnityWebRequest/1.0, libcurl/8.5.0-DEV)"),
   unityVersion |-> Str("2022.3.22f1-DWR"),
   queryCalledfrom |-> Str("loveworld"), headerCalledFrom |-> Undefined,
   username |-> username]

\* Admitted requests over every kind of username value.
ResolverRequests ==
  {ValidRequest(u) : u \in {Undefined, Str(""), Arr("Alice"), Str("Alice"), Str("alice")}}

\* The list of candidates with the given display names; the identifier of a
\* candidate is its position in the list.
Candidates(names) == [i \in 1 .. Len(names) |-> Candidate(i, names[i])]

\* Every list of at most n candidates over Names.
SearchResults(n) ==
  {Candidates(names) : names \in UNION {[1 .. k -> Names] : k \in 0 .. n}}

AgeVerificationStatuses == {Str(Verified_18_Plus), Str("hidden"), Undefined}

\* Every profile getUserById may return for one of the identifiers.
Profiles(names) ==
  [id : 1 .. MaxCandidates, displayName : names,
   ageVerificationStatus : AgeVerificationStatuses]

\* What an upstream call may reject with.
UpstreamErrors ==
  { RequestError(429, "Too many requests"),
    RequestError(500, "Internal server error"),
    PlainError("network error") }

\* The status codes an error may carry: none of the HTTP error classes, the
\* ends of each class, the codes the translator names.
StatusCodes == {0, 200, 400, 401, 403, 404, 418, 429, 499, 500, 503, 599, 600}

Messages == {"boom", "network error", "connect ECONNREFUSED", "timeout exceeded"}

\* The errors of vrc-ts the translator knows by their class.
TypedErrors ==
  {RequestError(c, "boom") : c \in StatusCodes}
    \cup {ErrorValue(cls, {}, None, None, m) :
            cls \in {"UserNotAuthenticated", "BadRequestParameter", "InvalidUserAgent",
                     "TOTPRequired", "EmailOtpRequired", "CookiesExpired",
                     "CookiesNotFound"},
            m \in {"", "boom"}}

\* What a field that may hold a status code holds: the key is absent, holds
\* undefined, or holds a number.
StatusFields(key) ==
  {[keys |-> {}, value |-> None], [keys |-> {key}, value |-> None]}
    \cup {[keys |-> {key}, value |-> Some(c)] : c \in StatusCodes}

\* Errors and plain objects with or without statusCode and response.status.
UntypedErrors ==
  {ErrorValue(cls, sc.keys \cup rs.keys, sc.value, rs.value, m) :
     cls \in {"Error", "Object"}, sc \in StatusFields("statusCode"),
     rs \in StatusFields("response.status"), m \in Messages}

\* A thrown string, null or undefined.
PrimitiveErrors == {ErrorValue("Primitive", {}, None, None, m) : m \in {"boom", "null"}}

\* Every value the catch block may receive.
AllErrors == TypedErrors \cup UntypedErrors \cup PrimitiveErrors

\* The inputs of the specifications with concurrent requests.
SmallRequests == {ValidRequest(Str("Alice"))}

SmallResults == {Candidates(<<>>), Candidates(<<"Alice">>), Candidates(<<"alice">>)}

SmallProfiles ==
  {p \in Profiles({"Alice"}) : p.ageVerificationStatus = Str(Verified_18_Plus)}

SmallErrors == {RequestError(429, "Too many requests")}

\* A /health request without any of the headers the middleware looks at.
HealthRequest ==
  [path |-> "/health", userAgent |-> Undefined, unityVersion |-> Undefined,
   queryCalledfrom |-> Undefined, headerCalledFrom |-> Undefined,
   username |-> Undefined]

\* /health requests whose headers and query are each missing, allow-listed
\* or not allow-listed.
HealthRequests ==
  [path : {"/health"},
   userAgent : {Undefined, Str("curl/8.5.0"), ValidRequest(Undefined).userAgent},
   unityVersion : {Undefined, Str("2021.3.1f1"), ValidRequest(Undefined).unityVersion},
   queryCalledfrom : {Undefined, Str("otherworld"), Str("loveworld")},
   headerCalledFrom : {Undefined, Str("loveworld")},
   username : {Undefined}]

\* The inputs of the specification of the session manager.
SessionRequests == {ValidRequest(Str("Alice")), HealthRequest}

\* /checkAdultStatus requests that pass the middleware, with and without a
\* username.
LiveRequests == {ValidRequest(Str("Alice")), ValidRequest(Undefined)}

\* The inputs of the specification of the resolver.
AllResults == SearchResults(MaxCandidates)

AllProfiles == Profiles(Names)

\* ---------------------------------------------------------- specifications

\* sequential: calls of waitForCooldown only follow one another, a request
\* that is to call the gate arrives only while no other slot is inside it.
GateFree(r, q, sequential) ==
  (sequential /\ ~IsResponse(ResponseBeforeGate(q)))
    => \A o \in AllSlots \ {r} : pc[o] # "cooldown"

\* The next-state relation over the given slots and inputs. The guard on
\* pc[r] comes before the choice of an input, so that the inputs are only
\* enumerated for a slot that can take them.
NextOver(Slots, Requests, Results, Users, Errors, sequential) ==
  \/ \E credentials \in BOOLEAN : StartServer(credentials)
  \/ \E user \in LoginUsers : LoginReturns(1, user)
  \/ \E e \in LoginErrors : LoginFails(1, e)
  \/ TickClock
  \/ \E r \in Slots :
       /\ pc[r] = "idle" /\ server = "listening"
       /\ \E q \in Requests : GateFree(r, q, sequential) /\ Receive(r, q)
  \/ \E r \in Slots : CooldownElapsed(r)
  \/ \E r \in Slots :
       /\ pc[r] = "search"
       /\ \E results \in Results : SearchReturns(r, results)
  \/ \E r \in Slots :
       /\ pc[r] = "search"
       /\ \E e \in Errors : SearchFails(r, e)
  \/ \E r \in Slots :
       /\ pc[r] = "fetch"
       /\ \E profile \in Users : GetUserReturns(r, profile)
  \/ \E r \in Slots :
       /\ pc[r] = "fetch"
       /\ \E e \in Errors : GetUserFails(r, e)
  \/ \E r \in Slots : Close(r)

\* Concurrent requests over a small alphabet of inputs.
Next ==
  NextOver(AllSlots, SmallRequests, SmallResults, SmallProfiles, SmallErrors, FALSE)

Spec == Init /\ [][Next]_vars

\* As Spec, with the calls of the gate following one another.
NextSequential ==
  NextOver(AllSlots, SmallRequests, SmallResults, SmallProfiles, SmallErrors, TRUE)

SpecSequential == Init /\ [][NextSequential]_vars

\* One request at a time, over every combination of header and query values.
NextAdmission ==
  NextOver({1}, AdmissionRequests, SmallResults, SmallProfiles, SmallErrors, FALSE)

SpecAdmission == Init /\ [][NextAdmission]_vars

\* One request at a time, over every list of candidates and every profile.
NextResolver ==
  NextOver({1}, ResolverRequests, AllResults, AllProfiles, UpstreamErrors, FALSE)

SpecResolver == Init /\ [][NextResolver]_vars

\* One request at a time, its upstream calls failing with any value.
NextTranslator ==
  NextOver({1}, SmallRequests, SmallResults, SmallProfiles, AllErrors, FALSE)

SpecTranslator == Init /\ [][NextTranslator]_vars

\* The server, one request at a time, with other users of the exported
\* singleton calling initialize() at any moment of the process's life. The
\* upstream finds no candidate or fails.
NextSession ==
  \/ \E credentials \in BOOLEAN : StartServer(credentials)
  \/ \E user \in LoginUsers : LoginReturns(1, user)
  \/ \E e \in LoginErrors : LoginFails(1, e)
  \/ TickClock
  \/ \E q \in SessionRequests : Receive(1, q)
  \/ CooldownElapsed(1)
  \/ SearchReturns(1, Candidates(<<>>))
  \/ \E e \in SmallErrors : SearchFails(1, e)
  \/ Close(1)
  \/ \E c \in OtherCallers, credentials \in BOOLEAN : Initialize(c, credentials)
  \/ \E c \in OtherCallers, user \in LoginUsers : LoginReturns(c, user)
  \/ \E c \in OtherCallers, e \in LoginErrors : LoginFails(c, e)
  \/ \E c \in OtherCallers : InitializeSettled(c)

SpecSession == Init /\ [][NextSession]_vars

\* The same, the upstream also finding the user asked for, whose profile is
\* then fetched.
NextSessionFetch ==
  \/ NextSession
  \/ SearchReturns(1, Candidates(<<"Alice">>))
  \/ \E profile \in SmallProfiles : GetUserReturns(1, profile)
  \/ \E e \in SmallErrors : GetUserFails(1, e)

SpecSessionFetch == Init /\ [][NextSessionFetch]_vars

\* Every slot takes one request and keeps its response: the requests overlap
\* at the gate and upstream, and time goes on until every timer has fired,
\* so that the clock needs no bound.
NextLive ==
  \/ \E credentials \in BOOLEAN : StartServer(credentials)
  \/ \E user \in LoginUsers : LoginReturns(1, user)
  \/ \E e \in LoginErrors : LoginFails(1, e)
  \/ TimerTick
  \/ \E r \in AllSlots :
       /\ pc[r] = "idle" /\ server = "listening"
       /\ \E q \in LiveRequests : Receive(r, q)
  \/ \E r \in AllSlots : CooldownElapsed(r)
  \/ \E r \in AllSlots, results \in SmallResults : SearchReturns(r, results)
  \/ \E r \in AllSlots, e \in SmallErrors : SearchFails(r, e)
  \/ \E r \in AllSlots, profile \in SmallProfiles : GetUserReturns(r, profile)
  \/ \E r \in AllSlots, e \in SmallErrors : GetUserFails(r, e)

\* searchAllUsers of slot r settles: it resolves or rejects.
SearchSettles(r) ==
  \/ \E results \in SmallResults : SearchReturns(r, results)
  \/ \E e \in SmallErrors : SearchFails(r, e)

\* getUserById of slot r settles: it resolves or rejects.
GetUserSettles(r) ==
  \/ \E profile \in SmallProfiles : GetUserReturns(r, profile)
  \/ \E e \in SmallErrors : GetUserFails(r, e)

\* The handler of slot r is resumed at the await it is suspended at: the
\* timer of the gate has fired, or the upstream call has settled.
Resumes(r) == CooldownElapsed(r) \/ SearchSettles(r) \/ GetUserSettles(r)

\* Time passes, and the event loop resumes every handler whose timer is due
\* or whose upstream call settles.
Scheduling ==
  /\ WF_vars(TimerTick)
  /\ \A r \in AllSlots : WF_vars(Resumes(r))

SpecLive == Init /\ [][NextLive]_vars /\ Scheduling

\* --------------------------------------------------------------------- claims

\* The admissions the log holds, oldest first.
Admitted == DOMAIN admissions

\* C1 (as claimed): with callers of the gate overlapping, any two admissions
\* are at least cooldownMs apart.
C1_PairwiseSpacing ==
  \A i, j \in Admitted :
    i < j => admissions[j].at - admissions[i].at >= cooldownMs

\* C2: with the calls of the gate following one another, a call that starts
\* less than cooldownMs after the last admission asks the timer for exactly
\* the remaining time (at most cooldownMs) and returns no earlier; a call that
\* starts cooldownMs or more after it returns at once; consecutive admissions
\* are at least cooldownMs apart.
C2_SequentialGate ==
  /\ \A r \in AllSlots :
       pc[r] = "cooldown" =>
         /\ The(cooldown[r]).start - lastRequestTime < cooldownMs
         /\ The(cooldown[r]).waitTime = cooldownMs - (The(cooldown[r]).start - lastRequestTime)
         /\ The(cooldown[r]).waitTime <= cooldownMs
  /\ \A j \in Admitted :
       LET b == admissions[j]
           last == IF j = 1 THEN 0 ELSE admissions[j - 1].at
       IN  /\ j > 1 => b.at - last >= cooldownMs
           /\ b.waitTime <= cooldownMs
           /\ b.start - last >= cooldownMs => (b.waitTime = 0 /\ b.at = b.start)
           /\ (j > 1 /\ b.start - last < cooldownMs) =>
                (b.waitTime = cooldownMs - (b.start - last) /\ b.at >= b.start + b.waitTime)

\* A call that was suspended has returned, on time, after an earlier admission.
C2_Witness ==
  /\ Len(admissions) = 2
  /\ admissions[2].waitTime > 0
  /\ admissions[2].at = admissions[2].start + admissions[2].waitTime

\* The slots that hold a /checkAdultStatus request.
Checking == {r \in AllSlots : req[r].path = "/checkAdultStatus"}

\* The identifiers slot r's handler asked getUserById for, in order.
Fetched(r) == SelectSeq(calls[r], LAMBDA c : c.op = "getUserById")

\* Candidate k of results is the first whose display name is exactly name.
FirstExact(results, name, k) ==
  /\ k \in DOMAIN results
  /\ results[k].displayName = name
  /\ \A j \in 1 .. k - 1 : results[j].displayName # name

\* C3: the only profile a request fetches is that of the first candidate, in
\* the order of the search result, whose display name is exactly the name
\* asked for; a 200 response is built from that fetched profile.
C3_OnlyFirstExactMatchFetched ==
  \A r \in Checking :
    /\ Len(Fetched(r)) <= 1
    /\ Len(Fetched(r)) = 1 =>
         /\ searchResults[r] # None
         /\ \E k \in DOMAIN The(searchResults[r]) :
              /\ FirstExact(The(searchResults[r]), req[r].username.v, k)
              /\ Fetched(r)[1].userId = The(searchResults[r])[k].id
    /\ res[r].status = 200 =>
         /\ Len(Fetched(r)) = 1
         /\ matchedUser[r] # None
         /\ The(matchedUser[r]).id = Fetched(r)[1].userId
         /\ res[r].body["username"] = The(matchedUser[r]).displayName

\* A 200 for "Alice" from the candidates "alice", "Alice", "Alice": the second
\* was fetched, not the first hit nor the later exact match.
C3_Witness ==
  \E r \in Checking :
    /\ res[r].status = 200
    /\ req[r].username = Str("Alice")
    /\ searchResults[r] = Some(Candidates(<<"alice", "Alice", "Alice">>))
    /\ Fetched(r)[1].userId = 2

\* C4: in a 200 response "age-verified" is "true" exactly when the fetched
\* profile's ageVerificationStatus is "18+", and "false" otherwise.
C4_VerifiedIffEighteenPlus ==
  \A r \in Checking :
    res[r].status = 200 =>
      /\ matchedUser[r] # None
      /\ res[r].body["age-verified"] \in {"true", "false"}
      /\ res[r].body["age-verified"] = "true"
           <=> The(matchedUser[r]).ageVerificationStatus = Str("18+")

\* A 200 response for a profile without a verification status.
C4_Witness ==
  \E r \in Checking :
    /\ res[r].status = 200
    /\ The(matchedUser[r]).ageVerificationStatus = Undefined
    /\ res[r].body["age-verified"] = "false"

\* C5 (as claimed): in a 200 response "username" is the display name the
\* request asked for, whatever profile getUserById returned.
C5_UsernameIsRequestedName ==
  \A r \in Checking :
    res[r].status = 200 => res[r].body["username"] = req[r].username.v

\* The checks of the validation middleware, as the claim lists them: the
\* user-agent, the runtime version, the caller tag (the query parameter when
\* it is present, the header otherwise).
FailsUserAgent(q) == q.userAgent \notin {Str(u) : u \in ALLOWED_USER_AGENTS}

FailsUnityVersion(q) == q.unityVersion \notin {Str(u) : u \in ALLOWED_UNITY_VERSIONS}

FailsCalledFrom(q) ==
  (IF q.queryCalledfrom \notin {Undefined, Str("")}
   THEN q.queryCalledfrom ELSE q.headerCalledFrom)
     \notin {Str(u) : u \in ALLOWED_CALLED_FROM}

FailsAdmission(q) == FailsUserAgent(q) \/ FailsUnityVersion(q) \/ FailsCalledFrom(q)

\* The slots that hold a request for a path other than /health.
Filtered == {r \in AllSlots : req[r].path \notin {"", "/health"}}

\* C6: a request for a path other than /health that fails a check of the
\* middleware is answered 404 {"error": "Not found"}, whichever check failed.
C6_RejectionIsUniform ==
  \A r \in Filtered :
    FailsAdmission(req[r]) =>
      /\ pc[r] = "done"
      /\ res[r] = Reply(404, [error |-> "Not found"])

\* A request rejected for its query tag alone, its header carrying an allowed
\* tag, beside nothing else wrong.
C6_Witness ==
  \E r \in Filtered :
    /\ ~FailsUserAgent(req[r]) /\ ~FailsUnityVersion(req[r])
    /\ req[r].queryCalledfrom = Str("otherworld")
    /\ req[r].headerCalledFrom = Str("loveworld")
    /\ res[r] = Reply(404, [error |-> "Not found"])

\* Request q ends before the gate: the middleware rejects it, or it is a
\* /checkAdultStatus request whose username is missing or no string.
EndsBeforeGate(q) ==
  /\ q.path \notin {"", "/health"}
  /\ \/ FailsAdmission(q)
     \/ q.path = "/checkAdultStatus" /\ q.username.t # "string"

\* C7: a request the middleware rejects, or one with a missing or non-string
\* username, is answered (404, 400) in the step it arrives in, with no
\* upstream call, no call of the gate and lastRequestTime unchanged.
C7_NoUpstreamBeforeValidation ==
  [][\A r \in AllSlots :
       (pc[r] = "idle" /\ pc'[r] # "idle" /\ EndsBeforeGate(req'[r])) =>
         /\ pc'[r] = "done"
         /\ res'[r].status = (IF FailsAdmission(req'[r]) THEN 404 ELSE 400)
         /\ calls'[r] = <<>>
         /\ gateCalls'[r] = 0
         /\ lastRequestTime' = lastRequestTime
         /\ admissions' = admissions
         /\ outbound' = outbound]_vars

\* A request with an array for a username was answered 400 after the gate had
\* admitted an earlier request.
C7_Witness ==
  \E r \in AllSlots :
    /\ ~FailsAdmission(req[r])
    /\ req[r].path = "/checkAdultStatus"
    /\ req[r].username = Arr("Alice")
    /\ res[r].status = 400
    /\ calls[r] = <<>>
    /\ lastRequestTime > 0

\* C8: a search that returns no candidate is answered 404
\* {"error": "User not found"}, and getUserById is not called.
C8_NoCandidates ==
  \A r \in Checking :
    (searchResults[r] # None /\ Len(The(searchResults[r])) = 0) =>
      /\ pc[r] = "done"
      /\ res[r] = Reply(404, [error |-> "User not found"])
      /\ Len(Fetched(r)) = 0

\* A request whose search returned no candidate.
C8_Witness ==
  \E r \in Checking :
    /\ searchResults[r] # None
    /\ Len(The(searchResults[r])) = 0
    /\ res[r].status = 404

\* Slot r's search returned candidates, none with exactly the name asked for.
NoExactMatch(r) ==
  /\ searchResults[r] # None
  /\ Len(The(searchResults[r])) > 0
  /\ \A k \in DOMAIN The(searchResults[r]) :
       The(searchResults[r])[k].displayName # req[r].username.v

\* C9: a search that returns candidates none of which has exactly the name
\* asked for is answered 404 and getUserById is not called, also when a
\* candidate matches but for case.
C9_NoExactMatch ==
  \A r \in Checking :
    NoExactMatch(r) =>
      /\ pc[r] = "done"
      /\ res[r].status = 404
      /\ Len(Fetched(r)) = 0

\* A 404 for "Alice" although the candidate "alice" was returned.
C9_Witness ==
  \E r \in Checking :
    /\ NoExactMatch(r)
    /\ req[r].username = Str("Alice")
    /\ \E k \in DOMAIN The(searchResults[r]) :
         The(searchResults[r])[k].displayName = "alice"
    /\ res[r].status = 404

\* Slot r's request was answered not-found: its search returned nothing, or
\* nothing that matches exactly.
NoCandidates(r) == searchResults[r] # None /\ Len(The(searchResults[r])) = 0

\* C10 (as claimed): the two not-found cases are answered alike, the same
\* status and the same body.
C10_NotFoundAlike ==
  \A r1, r2 \in Checking :
    (NoCandidates(r1) /\ NoExactMatch(r2)) => res[r1] = res[r2]

\* C11 (as claimed): once isReady() is true it is true in every later state,
\* whatever calls of initialize() and requests follow or overlap.
C11_ReadyStaysReady == [][isReady => isReady']_vars

\* Call c of initialize() throws in this step.
Throws(c) == initPc[c] # "threw" /\ initPc'[c] = "threw"

\* C12: when a call of initialize() fails (no credentials, login rejects,
\* login leaves no current user) it throws to its caller, and right then
\* getInitializationError() returns the failure (the missing credentials for a
\* call that fails before login, what login rejected with or the missing
\* current user otherwise), isReady() is false and getApi() throws.
C12_FailureLeavesNotReady ==
  [][\A c \in Callers :
       Throws(c) =>
         /\ initializationError' # None
         /\ initPc[c] = "idle" =>
              The(initializationError').message =
                "VRCHAT_USERNAME and VRCHAT_PASSWORD are required in .env file"
         /\ initPc[c] = "login" =>
              \/ initializationError' \in {Some(e) : e \in LoginErrors}
              \/ The(initializationError').message =
                   "Authentication failed: currentUser is null"
         /\ ~(isAuthenticated' /\ api' # None /\ currentUser' # None)
         /\ GetApiThrows']_vars

\* A call of initialize() has thrown while the session held a client handle
\* with a current user, left there by another call.
C12_Witness ==
  \E c \in Callers :
    /\ initPc[c] = "threw"
    /\ initializationError # None
    /\ currentUser # None
    /\ ~isAuthenticated

\* C13: a call of initialize() made while the session is authenticated returns
\* at once: no login is started, no client handle is constructed and no field
\* of the session changes.
C13_InitializeIdempotent ==
  [][\A c \in Callers :
       (initPc[c] = "idle" /\ initPc'[c] # "idle" /\ isAuthenticated) =>
         /\ initPc'[c] = "returned"
         /\ api' = api
         /\ currentUser' = currentUser
         /\ isAuthenticated' = isAuthenticated
         /\ initializationError' = initializationError
         /\ apiCurrentUser' = apiCurrentUser]_vars

\* A call of initialize() has returned without touching the handle of
\* another call, which the authenticated session holds.
C13_Witness ==
  \E c \in OtherCallers :
    /\ initPc[c] = "returned"
    /\ isReady
    /\ api # Some(c)
    /\ apiCurrentUser[c] = None

\* C14 (as claimed): a /checkAdultStatus request that passes the middleware
\* and the username check while the session is not ready, so that getApi()
\* throws, is answered with status 401.
C14_NotReadyIs401 ==
  \A r \in Checking :
    caught[r] = Some(NotInitializedError) => res[r].status = 401

\* Slot r takes a /health request in this step.
HealthArrives(r) == pc[r] = "idle" /\ pc'[r] # "idle" /\ req'[r].path = "/health"

\* C15: /health answers 503 with vrchatClientReady false while the session is
\* not ready, and 200 with vrchatClientReady true and the display name of the
\* account the session's client handle is logged in as, never null, while it
\* is ready.
C15_HealthReportsReadiness ==
  [][\A r \in AllSlots :
       HealthArrives(r) =>
         /\ pc'[r] = "done"
         /\ IF isAuthenticated /\ api # None /\ currentUser # None
            THEN /\ res'[r].status = 200
                 /\ res'[r].body.vrchatClientReady = TRUE
                 /\ apiCurrentUser[The(api)] # None
                 /\ res'[r].body.authenticatedUser =
                      Str(The(apiCurrentUser[The(api)]).displayName)
            ELSE /\ res'[r].status = 503
                 /\ res'[r].body.vrchatClientReady = FALSE]_vars

\* /health answered 503 by the listening server, the session no longer ready.
C15_Witness ==
  \E r \in AllSlots :
    /\ req[r].path = "/health"
    /\ res[r].status = 503
    /\ res[r].body.vrchatClientReady = FALSE
    /\ ~isReady

\* C16: the response to a /health request is the one the pipeline gives a
\* /health request with any other user-agent, runtime version and caller tag,
\* allow-listed or not, in the same state of the session.
C16_HealthIsExempt ==
  [][\A r \in AllSlots :
       HealthArrives(r) =>
         \A q \in HealthRequests : ResponseBeforeGate(q) = res'[r]]_vars

\* A /health request without any header was answered by the health check.
C16_Witness ==
  \E r \in AllSlots :
    /\ req[r] = HealthRequest
    /\ res[r].status = 200
    /\ res[r].body.vrchatClientReady = TRUE

\* The status code error e carries: its statusCode when it has one, the
\* status of its response otherwise (None: it carries none).
Carried(e) == IF e.statusCode # None THEN e.statusCode ELSE e.responseStatus

CarriesIn(e, codes) == Carried(e) # None /\ The(Carried(e)) \in codes

\* C17 (as claimed): an upstream failure that carries a 5xx status code, as a
\* RequestError or as an error with statusCode or response.status, is
\* answered with status 502, never with the upstream code.
C17_Upstream5xxIs502 ==
  \A r \in Checking :
    (caught[r] # None /\ CarriesIn(The(caught[r]), 500 .. 599)) =>
      res[r].status = 502

\* C18: an upstream failure that carries a 4xx status code, 429 included, is
\* answered with that same status.
C18_Upstream4xxPassesThrough ==
  \A r \in Checking :
    (caught[r] # None /\ CarriesIn(The(caught[r]), 400 .. 499)) =>
      res[r].status = The(Carried(The(caught[r])))

\* A RequestError with a 4xx code the translator does not name, and a plain
\* object with a 4xx response.status, each answered with its code.
C18_Witness ==
  \E r \in Checking :
    /\ caught[r] # None
    /\ \/ The(caught[r]) = RequestError(418, "boom")
       \/ /\ The(caught[r]).cls = "Object"
          /\ The(caught[r]).statusCode = None
          /\ The(caught[r]).responseStatus = Some(429)
    /\ res[r].status = The(Carried(The(caught[r])))

\* The values the translator has no class for: a plain object or a primitive
\* that carries no HTTP error status.
Unclassifiable(e) ==
  e.cls \in {"Object", "Primitive"} /\ ~CarriesIn(e, 400 .. 599)

\* C19: whatever value the catch block receives, the translator returns and the
\* request is answered with an error status and a message; a value the
\* translator cannot classify is answered 500.
C19_TranslatorIsTotal ==
  \A r \in Checking :
    caught[r] # None =>
      /\ pc[r] = "done"
      /\ res[r].status \in 400 .. 599
      /\ "error" \in DOMAIN res[r].body
      /\ Unclassifiable(The(caught[r])) => res[r].status = 500

\* A thrown primitive answered 500.
C19_Witness ==
  \E r \in Checking :
    /\ caught[r] # None
    /\ The(caught[r]).cls = "Primitive"
    /\ res[r].status = 500
    /\ res[r].body.errorType = "UnknownError"

\* C20 (as claimed): two upstream calls issued one after the other, searches
\* and fetches alike, in one request or in two, start at least cooldownMs
\* apart.
C20_OutboundSpacing ==
  \A i, j \in DOMAIN outbound :
    i < j => outbound[j].at - outbound[i].at >= cooldownMs

\* The calls of operation op that slot r's handler issued.
Issued(r, op) == SelectSeq(calls[r], LAMBDA c : c.op = op)

\* C21: a /checkAdultStatus request issues at most one search and at most one
\* fetch by id; when one of them fails, the error response is sent at once and
\* no upstream call is issued for the request any more.
C21_NoRetry ==
  [][\A r \in AllSlots :
       /\ Len(Issued(r, "searchAllUsers"))' <= 1
       /\ Len(Issued(r, "getUserById"))' <= 1
       /\ (pc[r] \in {"search", "fetch"} /\ calls'[r] # calls[r]) =>
            (pc[r] = "search" /\ pc'[r] = "fetch" /\ searchResults'[r] # None)
       /\ (caught[r] = None /\ caught'[r] # None) =>
            /\ pc'[r] = "done"
            /\ res'[r].status >= 400
            /\ calls'[r] = calls[r]
            /\ outbound' = outbound]_vars

\* A request whose fetch by id failed after its search had succeeded: one
\* call of each, and an error response.
C21_Witness ==
  \E r \in Checking :
    /\ caught[r] # None
    /\ Len(calls[r]) = 2
    /\ calls[r][2].op = "getUserById"
    /\ res[r].status >= 400

\* C22: the server listens only after startServer's call of initialize() has
\* returned, the session ready; when that call throws, the process ends
\* without having listened; before the server listens no request is handled,
\* /health included: no slot is busy, the gate and the upstream are untouched.
C22_ListensAfterInitialize ==
  /\ server = "listening" =>
       (initPc[1] = "returned" /\ currentUser # None /\ api # None)
  /\ initPc[1] = "threw" => server = "exited"
  /\ server # "listening" =>
       /\ \A r \in AllSlots : pc[r] = "idle" /\ ~IsResponse(res[r])
       /\ lastRequestTime = 0
       /\ outbound = <<>>
  /\ \A r \in AllSlots : pc[r] # "idle" => isAuthenticated

\* initialize() has thrown and the process has ended, nothing handled.
C22_Witness ==
  /\ server = "exited"
  /\ initPc[1] = "threw"
  /\ initializationError # None
  /\ \A r \in AllSlots : pc[r] = "idle"

\* Slot r holds a /checkAdultStatus request that passes the middleware and the
\* username check.
WellFormed(r) ==
  /\ req[r].path = "/checkAdultStatus"
  /\ ~FailsAdmission(req[r])
  /\ req[r].username.t = "string" /\ req[r].username.v # ""

\* C23: a /checkAdultStatus request that passes the middleware and the
\* username check calls the gate once; its search is issued after that call
\* has returned and its fetch after the search has returned; a response is
\* never given without the request's own gate call and search, whatever was
\* answered for the same name before.
C23_GateThenSearchThenFetch ==
  \A r \in AllSlots :
    WellFormed(r) =>
      /\ gateCalls[r] = 1
      /\ pc[r] = "cooldown" => (cooldown[r] # None /\ calls[r] = <<>>)
      /\ calls[r] # <<>> =>
           /\ cooldown[r] = None
           /\ admissions # <<>>
           /\ calls[r][1] = [op |-> "searchAllUsers", search |-> req[r].username.v,
                             userId |-> 0]
      /\ Len(calls[r]) >= 2 =>
           /\ searchResults[r] # None
           /\ Len(calls[r]) = 2
           /\ calls[r][2].op = "getUserById"
      /\ IsResponse(res[r]) => (caught[r] # None \/ searchResults[r] # None)
      /\ res[r].status = 200 => Len(calls[r]) = 2

\* A request for a name answered 200 after the gate had admitted an earlier
\* request for the same name: it went through the gate, the search and the
\* fetch itself.
C23_Witness ==
  \E r \in AllSlots :
    /\ WellFormed(r)
    /\ Len(admissions) = 2
    /\ res[r].status = 200
    /\ gateCalls[r] = 1
    /\ Len(calls[r]) = 2

\* C24: when the fetch by id fails after a search with an exact match, the
\* response is the translator's result for the error the fetch raised, not the
\* handler's 200 or one of its 404s, and the step issues no upstream call and
\* changes neither the gate nor the session.
C24_FetchFailureIsTranslated ==
  [][\A r \in AllSlots :
       (pc[r] = "fetch" /\ caught'[r] # None) =>
         /\ pc'[r] = "done"
         /\ res'[r].status = handleVRChatError(The(caught'[r])).statusCode
         /\ res'[r].body = handleVRChatError(The(caught'[r])).response
         /\ "errorType" \in DOMAIN res'[r].body
         /\ "age-verified" \notin DOMAIN res'[r].body
         /\ matchedUser'[r] = None
         /\ calls' = calls
         /\ outbound' = outbound
         /\ lastRequestTime' = lastRequestTime
         /\ admissions' = admissions
         /\ UNCHANGED <<api, isAuthenticated, currentUser, initializationError>>]_vars

\* A fetch that failed with an upstream 404: the response is the translated
\* error, which names its type.
C24_Witness ==
  \E r \in Checking :
    /\ Len(calls[r]) = 2
    /\ caught[r] = Some(RequestError(404, "boom"))
    /\ res[r].status = 404
    /\ res[r].body.errorType = "RequestError"

\* C25: the timestamp the gate records never decreases, whatever the
\* interleaving of its callers.
C25_TimestampMonotone == [][lastRequestTime' >= lastRequestTime]_vars

\* A call of the gate that slept has returned after a call that started
\* later than it had been admitted.
C25_Witness ==
  /\ Len(admissions) = 2
  /\ admissions[2].start < admissions[1].start
  /\ lastRequestTime = admissions[2].at

\* C26: a step of a request handler (the middleware's rejection, /health, a
\* /checkAdultStatus request at any point, answered or failed) changes no
\* field of the session.
C26_HandlersLeaveSession ==
  [][(\E r \in AllSlots : pc'[r] # pc[r]) =>
       /\ api' = api
       /\ currentUser' = currentUser
       /\ isAuthenticated' = isAuthenticated
       /\ initializationError' = initializationError
       /\ apiCurrentUser' = apiCurrentUser]_vars

\* A request whose search failed has been answered, the session ready as
\* login left it.
C26_Witness ==
  \E r \in Checking :
    /\ caught[r] # None
    /\ res[r].status = 429
    /\ isReady
    /\ initializationError = None

\* Slot r's request, for a path other than /health, passed the middleware:
\* it was not answered with the middleware's 404.
Passed(r) == res[r] # Reply(404, [error |-> "Not found"])

\* The three membership tests on a request whose caller tag is tag.
Allowed(q, tag) ==
  /\ q.userAgent \in {Str(u) : u \in ALLOWED_USER_AGENTS}
  /\ q.unityVersion \in {Str(u) : u \in ALLOWED_UNITY_VERSIONS}
  /\ tag \in {Str(u) : u \in ALLOWED_CALLED_FROM}

\* C27 (as claimed): a request for a path other than /health passes the
\* middleware exactly when its user-agent, its x-unity-version and its caller
\* tag are allow-listed, the tag being the calledfrom query parameter when the
\* request has one and the x-called-from header otherwise.
C27_AdmissionIffAllowed ==
  \A r \in Filtered :
    Passed(r) <=>
      Allowed(req[r], IF req[r].queryCalledfrom # Undefined
                      THEN req[r].queryCalledfrom ELSE req[r].headerCalledFrom)

\* C27 (amended): as claimed, the tag being the calledfrom query parameter
\* when the request has one that is not empty, and the x-called-from header
\* otherwise.
C27_AdmissionIffAllowedNonEmpty ==
  \A r \in Filtered :
    Passed(r) <=>
      Allowed(req[r], IF req[r].queryCalledfrom \notin {Undefined, Str("")}
                      THEN req[r].queryCalledfrom ELSE req[r].headerCalledFrom)

\* A request rejected for its query tag although its header carries an
\* allow-listed tag.
C27_Witness ==
  \E r \in Filtered :
    /\ req[r].headerCalledFrom = Str("loveworld")
    /\ req[r].queryCalledfrom = Str("otherworld")
    /\ Allowed(req[r], req[r].headerCalledFrom)
    /\ ~Passed(r)

\* C28 (as claimed): no search and no fetch by id is issued while the session
\* is not ready: a step in which a handler issues an upstream call is taken
\* with isReady() true.
C28_NoCallWhileNotReady ==
  [][\A r \in AllSlots : Len(calls'[r]) > Len(calls[r]) => isReady]_vars

====
